---- MODULE Spec2Model ----
(***************************************************************************)
(* Grid density analysis of LocationIntelligenceTool (src/src/main.py):    *)
(* analyze_density and the reverse_geocode call it makes per hotspot.      *)
(*                                                                         *)
(* Coordinates are integers counting hundredths of a degree, so that the   *)
(* fallback step 0.01 is one unit.  Steps and centroids are exact          *)
(* fractions [num, den]; Python's float rounding is not modelled.          *)
(* A Python number is [float, twice]: twice its value, and whether it is a *)
(* float; grid_size ranges over ints and over floats with a fractional     *)
(* part of one half (a float with an integral value, 2.0, is not among the *)
(* inputs).  Strings are sequences of one-character strings.               *)
(* A dict is a record with a field keys naming the keys that are present.  *)
(***************************************************************************)
EXTENDS Integers, Sequences, FiniteSets, TLC

\* ---------------------------------------------------------------- bounds
\* the longest places list
MaxPlaces == 4

\* ------------------------------------------------------------- constants
\* hotspots[:3]
TopN == 3
\* the fallback step 0.01, in hundredths of a degree
FallbackStep == 1
\* grid_size=5, the default of analyze_density
DefaultGridSize == 5

UnknownLocation == "Unknown location"
NoPlacesMessage == "No places to analyze"

\* ------------------------------------------------------------ arithmetic
Abs(n) == IF n < 0 THEN 0 - n ELSE n

Min2(a, b) == IF a <= b THEN a ELSE b

RECURSIVE Gcd(_, _)
Gcd(a, b) == IF b = 0 THEN a ELSE Gcd(b, a % b)

\* the fraction n/d in lowest terms with a positive denominator (d # 0)
Rat(n, d) ==
    LET g == Gcd(Abs(n), Abs(d))
        s == IF d < 0 THEN 0 - 1 ELSE 1
    IN  [num |-> (s * n) \div g, den |-> (s * d) \div g]

\* int(n/d) of Python: truncation towards zero (d # 0)
Trunc(n, d) ==
    LET s == IF d < 0 THEN 0 - 1 ELSE 1
        a == s * n
        b == s * d
    IN  IF a >= 0 THEN a \div b ELSE 0 - ((0 - a) \div b)

PyInt(v) == [float |-> FALSE, twice |-> 2 * v]

\* ---------------------------------------------------------------- strings
DigitChars == <<"0", "1", "2", "3", "4", "5", "6", "7", "8", "9">>

RECURSIVE NatToStr(_)
NatToStr(n) ==
    IF n < 10 THEN <<DigitChars[n + 1]>>
    ELSE NatToStr(n \div 10) \o <<DigitChars[(n % 10) + 1]>>

\* str(x) inside the f-string: "3", "-2", "1.5", "-0.5"
Str(x) ==
    LET a == Abs(x.twice)
        sign == IF x.twice < 0 THEN <<"-">> ELSE <<>>
    IN  IF ~x.float THEN sign \o NatToStr(a \div 2)
        ELSE sign \o NatToStr(a \div 2) \o <<".">>
                  \o <<IF a % 2 = 1 THEN "5" ELSE "0">>

\* f"{lat_bin},{lng_bin}"
GridKey(lat_bin, lng_bin) == Str(lat_bin) \o <<",">> \o Str(lng_bin)

IsDigit(c) == \E d \in 1..10 : DigitChars[d] = c

DigitValue(c) == (CHOOSE d \in 1..10 : DigitChars[d] = c) - 1

RECURSIVE DigitsValue(_)
DigitsValue(s) ==
    IF s = <<>> THEN 0
    ELSE 10 * DigitsValue(SubSeq(s, 1, Len(s) - 1)) + DigitValue(s[Len(s)])

\* int(s) on a string: an optional sign and decimal digits, else ValueError
ParseInt(s) ==
    LET neg == s # <<>> /\ s[1] = "-"
        body == IF neg THEN Tail(s) ELSE s
        ok == body # <<>> /\ \A j \in 1..Len(body) : IsDigit(body[j])
    IN  [ok |-> ok,
         value |-> IF ~ok THEN 0
                   ELSE IF neg THEN 0 - DigitsValue(body) ELSE DigitsValue(body)]

\* s.split(',')
RECURSIVE Split(_, _)
Split(s, piece) ==
    IF s = <<>> THEN <<piece>>
    ELSE IF s[1] = "," THEN <<piece>> \o Split(Tail(s), <<>>)
    ELSE Split(Tail(s), Append(piece, s[1]))


\* ----------------------------------------------------------------- inputs
Coord(lat, lng) == [keys |-> {"lat", "lng"}, lat |-> lat, lng |-> lng]

\* a record of the caller that carries no coordinates
NoCoords == [keys |-> {"name"}, lat |-> 0, lng |-> 0]

\* the places the lists are drawn from
Points == {Coord(0, 0), Coord(1, 0), Coord(2, 0), Coord(0, 1), Coord(2, 1)}

PlaceLists == UNION {[1..n -> Points] : n \in 0..MaxPlaces}

MalformedLists == {Append(l, NoCoords) : l \in UNION {[1..n -> Points] : n \in 0..1}}

\* the places argument: a list, or something that is no list (None, the
\* error dict of search_places)
ListArg(l) == [is_list |-> TRUE, items |-> l]
NotAList == [is_list |-> FALSE, items |-> <<>>]

PlacesArgs == {ListArg(l) : l \in PlaceLists \cup MalformedLists} \cup {NotAList}

\* the grid_size argument: the ints -1, 0, 1, 2 and the default, and the
\* floats -0.5 and half the default
GridSizes ==
    {PyInt(g) : g \in ((0 - 1)..2) \cup {DefaultGridSize}}
    \cup {[float |-> TRUE, twice |-> t] : t \in {0 - 1, DefaultGridSize}}

IsPositiveInt(g) == ~g.float /\ g.twice >= 2

\* what requests.get(...).json() hands to reverse_geocode
Result(address_keys) ==
    [keys |-> address_keys, formatted_address |-> "1 Main St, Springfield"]
Response(raises, status, results) ==
    [raises |-> raises, status |-> status, results |-> results]

Responses ==
    { Response(TRUE, "", <<>>),
      Response(FALSE, "OK", <<Result({"formatted_address"})>>),
      Response(FALSE, "OK", <<Result({"place_id"})>>),
      Response(FALSE, "OK", <<>>),
      Response(FALSE, "ZERO_RESULTS", <<>>) }

\* the lookup did not produce an address
Failed(resp) ==
    \/ resp.raises
    \/ resp.status # "OK"
    \/ resp.results = <<>>
    \/ "formatted_address" \notin resp.results[1].keys

\* ------------------------------------------------------------------ state
VARIABLES
    pc,               \* position in analyze_density
    places,           \* argument places
    grid_size,        \* argument grid_size
    min_lat, max_lat, min_lng, max_lng,
    lat_step, lng_step,
    i,                \* index of the next place of the scan
    grid_counts,      \* dict in insertion order: sequence of [key, count]
    hotspots,         \* sorted(grid_counts.items(), ...)
    k,                \* index of the next hotspot of hotspots[:3]
    hotspot_details,
    geocode_log,      \* the reverse_geocode calls so far: arguments, failure
    exc,              \* exception raised inside the try block
    result,           \* the returned dict
    raised            \* exception that left analyze_density

vars == <<pc, places, grid_size, min_lat, max_lat, min_lng, max_lng, lat_step,
          lng_step, i, grid_counts, hotspots, k, hotspot_details,
          geocode_log, exc, result, raised>>

NoStep == [num |-> 0, den |-> 1]
NoResult == [keys |-> {}, error |-> "", total_places |-> 0,
             grid_size |-> PyInt(0), hotspots |-> <<>>]
ErrorResult(msg) == [keys |-> {"error"}, error |-> msg, total_places |-> 0,
                     grid_size |-> PyInt(0), hotspots |-> <<>>]
Report(n, g, details) ==
    [keys |-> {"total_places", "grid_size", "hotspots"}, error |-> "",
     total_places |-> n, grid_size |-> g, hotspots |-> details]

Init ==
    /\ pc = "call"
    /\ places \in PlacesArgs
    /\ grid_size \in GridSizes
    /\ min_lat = 0 /\ max_lat = 0 /\ min_lng = 0 /\ max_lng = 0
    /\ lat_step = NoStep /\ lng_step = NoStep
    /\ i = 1
    /\ grid_counts = <<>>
    /\ hotspots = <<>>
    /\ k = 1
    /\ hotspot_details = <<>>
    /\ geocode_log = <<>>
    /\ exc = "none"
    /\ result = NoResult
    /\ raised = "none"


\* -------------------------------------------------------- analyze_density
Lats(items) == {items[j].lat : j \in 1..Len(items)}
Lngs(items) == {items[j].lng : j \in 1..Len(items)}

SetMin(S) == CHOOSE m \in S : \A x \in S : m <= x
SetMax(S) == CHOOSE m \in S : \A x \in S : m >= x

\* not isinstance(places, list) or not places
NoPlaces_ListOnly(p) == ~p.is_list

NoPlaces(p) == ~p.is_list \/ p.items = <<>>

\* place["lat"] or place["lng"] of some place raises KeyError
MissingCoords(items) ==
    \E j \in 1..Len(items) : ~({"lat", "lng"} \subseteq items[j].keys)

\* (hi - lo) / grid_size divides by zero
StepRaises(lo, hi, g) == hi # lo /\ g.twice = 0

Step_ZeroFallback(lo, hi, g) ==
    IF hi # lo THEN Rat(2 * (hi - lo), g.twice) ELSE Rat(0, 1)

\* (hi - lo) / grid_size if hi != lo else 0.01
Step(lo, hi, g) ==
    IF hi # lo THEN Rat(2 * (hi - lo), g.twice) ELSE Rat(FallbackStep, 1)

Clamp_Strict(bin, g) ==
    IF bin.twice > g.twice THEN [float |-> g.float, twice |-> g.twice - 2]
    ELSE bin

\* if bin >= grid_size: bin = grid_size - 1
Clamp(bin, g) ==
    IF bin.twice >= g.twice THEN [float |-> g.float, twice |-> g.twice - 2]
    ELSE bin

\* int((v - lo) / step) if step != 0 else 0, then the clamp
Bin(v, lo, step, g) ==
    Clamp(IF step.num # 0 THEN PyInt(Trunc((v - lo) * step.den, step.num))
          ELSE PyInt(0), g)

\* the grid_key of a place
KeyOf(place, lo_lat, lo_lng, s_lat, s_lng, g) ==
    GridKey(Bin(place.lat, lo_lat, s_lat, g), Bin(place.lng, lo_lng, s_lng, g))

Increment_Overwrite(counts, key) ==
    IF \E j \in 1..Len(counts) : counts[j].key = key
    THEN counts
    ELSE Append(counts, [key |-> key, count |-> 1])

\* grid_counts[grid_key] = grid_counts.get(grid_key, 0) + 1
Increment(counts, key) ==
    IF \E j \in 1..Len(counts) : counts[j].key = key
    THEN [j \in 1..Len(counts) |->
            IF counts[j].key = key
            THEN [counts[j] EXCEPT !.count = @ + 1] ELSE counts[j]]
    ELSE Append(counts, [key |-> key, count |-> 1])

InsertDesc_AheadOfTies(sorted, e) ==
    LET ahead == {j \in 1..Len(sorted) : sorted[j].count > e.count}
        n == Cardinality(ahead)
    IN  SubSeq(sorted, 1, n) \o <<e>> \o SubSeq(sorted, n + 1, Len(sorted))

\* where a stable descending sort puts e: behind every item counting at least
\* as much
InsertDesc(sorted, e) ==
    LET ahead == {j \in 1..Len(sorted) : sorted[j].count >= e.count}
        n == Cardinality(ahead)
    IN  SubSeq(sorted, 1, n) \o <<e>> \o SubSeq(sorted, n + 1, Len(sorted))

\* sorted(items, key=lambda x: x[1], reverse=True)
RECURSIVE SortedDesc(_)
SortedDesc(items) ==
    IF items = <<>> THEN <<>>
    ELSE InsertDesc(SortedDesc(SubSeq(items, 1, Len(items) - 1)), items[Len(items)])

Top_Four(sorted) == SubSeq(sorted, 1, Min2(TopN + 1, Len(sorted)))

Top_All(sorted) == sorted

\* hotspots[:3]
Top(sorted) == SubSeq(sorted, 1, Min2(TopN, Len(sorted)))

\* lat_bin, lng_bin = map(int, grid_key.split(','))
ParseKey(key) ==
    LET parts == Split(key, <<>>)
        ints == [j \in 1..Len(parts) |-> ParseInt(parts[j])]
    IN  [ok |-> Len(parts) = 2 /\ \A j \in 1..Len(parts) : ints[j].ok,
         bins |-> [j \in 1..Len(parts) |-> ints[j].value]]

\* lo + (bin + 0.5) * step
Center(lo, bin, step) ==
    Rat(lo * 2 * step.den + (2 * bin + 1) * step.num, 2 * step.den)

\* d.get(key, default)
Get(d, key, default) == IF key \in d.keys THEN d[key] ELSE default

reverse_geocode_Leak(resp) ==
    IF resp.raises THEN "Error in reverse_geocode"
    ELSE IF resp.status = "OK" /\ resp.results # <<>>
         THEN Get(resp.results[1], "formatted_address", UnknownLocation)
         ELSE UnknownLocation

\* reverse_geocode on the response its request got
reverse_geocode(resp) ==
    IF resp.raises THEN UnknownLocation
    ELSE IF resp.status = "OK" /\ resp.results # <<>>
         THEN Get(resp.results[1], "formatted_address", UnknownLocation)
         ELSE UnknownLocation

Handled_Reraise(e) == [result |-> NoResult, raised |-> e]

\* the except clause of analyze_density: the error dict, nothing re-raised
Handled(e) == [result |-> ErrorResult(e), raised |-> "none"]

\* if not isinstance(places, list) or not places: return {"error": ...}
Validate ==
    /\ pc = "call"
    /\ IF NoPlaces(places)
       THEN /\ result' = ErrorResult(NoPlacesMessage)
            /\ pc' = "done"
       ELSE /\ pc' = "bbox"
            /\ UNCHANGED result
    /\ UNCHANGED <<places, grid_size, min_lat, max_lat, min_lng, max_lng,
                   lat_step, lng_step, i, grid_counts, hotspots, k,
                   hotspot_details, geocode_log, exc, raised>>

\* the bounding box and the two steps
ComputeGrid ==
    /\ pc = "bbox"
    /\ IF MissingCoords(places.items) \/ places.items = <<>>
       THEN /\ exc' = IF MissingCoords(places.items) THEN "KeyError"
                      ELSE "ValueError"
            /\ pc' = "except"
            /\ UNCHANGED <<min_lat, max_lat, min_lng, max_lng, lat_step, lng_step>>
       ELSE LET lo_lat == SetMin(Lats(places.items))
                hi_lat == SetMax(Lats(places.items))
                lo_lng == SetMin(Lngs(places.items))
                hi_lng == SetMax(Lngs(places.items))
            IN  /\ min_lat' = lo_lat /\ max_lat' = hi_lat
                /\ min_lng' = lo_lng /\ max_lng' = hi_lng
                /\ IF StepRaises(lo_lat, hi_lat, grid_size)
                      \/ StepRaises(lo_lng, hi_lng, grid_size)
                   THEN /\ exc' = "ZeroDivisionError"
                        /\ pc' = "except"
                        /\ UNCHANGED <<lat_step, lng_step>>
                   ELSE /\ lat_step' = Step(lo_lat, hi_lat, grid_size)
                        /\ lng_step' = Step(lo_lng, hi_lng, grid_size)
                        /\ pc' = "scan"
                        /\ UNCHANGED exc
    /\ UNCHANGED <<places, grid_size, i, grid_counts, hotspots, k,
                   hotspot_details, geocode_log, result, raised>>

\* one pass of the loop over places
BinPlace ==
    /\ pc = "scan"
    /\ i <= Len(places.items)
    /\ grid_counts' = Increment(grid_counts,
            KeyOf(places.items[i], min_lat, min_lng, lat_step, lng_step, grid_size))
    /\ i' = i + 1
    /\ UNCHANGED <<pc, places, grid_size, min_lat, max_lat, min_lng, max_lng,
                   lat_step, lng_step, hotspots, k, hotspot_details,
                   geocode_log, exc, result, raised>>

\* the loop is over: rank the cells
SortHotspots ==
    /\ pc = "scan"
    /\ i > Len(places.items)
    /\ hotspots' = SortedDesc(grid_counts)
    /\ pc' = "label"
    /\ UNCHANGED <<places, grid_size, min_lat, max_lat, min_lng, max_lng,
                   lat_step, lng_step, i, grid_counts, k, hotspot_details,
                   geocode_log, exc, result, raised>>

\* one pass of the loop over hotspots[:3], reverse_geocode included
LabelHotspot ==
    /\ pc = "label"
    /\ k <= Len(Top(hotspots))
    /\ LET cell == ParseKey(hotspots[k].key)
       IN  IF ~cell.ok
           THEN /\ exc' = "ValueError"
                /\ pc' = "except"
                /\ UNCHANGED <<k, hotspot_details, geocode_log>>
           ELSE LET center_lat == Center(min_lat, cell.bins[1], lat_step)
                    center_lng == Center(min_lng, cell.bins[2], lng_step)
                IN  \E resp \in Responses :
                      /\ geocode_log' = Append(geocode_log,
                            [lat |-> center_lat, lng |-> center_lng,
                             failed |-> Failed(resp)])
                      /\ hotspot_details' = Append(hotspot_details,
                            [grid_cell |-> hotspots[k].key,
                             count |-> hotspots[k].count,
                             center_lat |-> center_lat,
                             center_lng |-> center_lng,
                             approximate_location |-> reverse_geocode(resp)])
                      /\ k' = k + 1
                      /\ UNCHANGED <<pc, exc>>
    /\ UNCHANGED <<places, grid_size, min_lat, max_lat, min_lng, max_lng,
                   lat_step, lng_step, i, grid_counts, hotspots, result, raised>>

\* return {"total_places": ..., "grid_size": ..., "hotspots": ...}
ReturnReport ==
    /\ pc = "label"
    /\ k > Len(Top(hotspots))
    /\ result' = Report(Len(places.items), grid_size, hotspot_details)
    /\ pc' = "done"
    /\ UNCHANGED <<places, grid_size, min_lat, max_lat, min_lng, max_lng,
                   lat_step, lng_step, i, grid_counts, hotspots, k,
                   hotspot_details, geocode_log, exc, raised>>

\* except Exception as e: return {"error": str(e)}
ExceptHandler ==
    /\ pc = "except"
    /\ result' = Handled(exc).result
    /\ raised' = Handled(exc).raised
    /\ pc' = "done"
    /\ UNCHANGED <<places, grid_size, min_lat, max_lat, min_lng, max_lng,
                   lat_step, lng_step, i, grid_counts, hotspots, k,
                   hotspot_details, geocode_log, exc>>

Next ==
    \/ Validate
    \/ ComputeGrid
    \/ BinPlace
    \/ SortHotspots
    \/ LabelHotspot
    \/ ReturnReport
    \/ ExceptHandler

Spec == Init /\ [][Next]_vars


\* ------------------------------------------------------------ properties
ValidPlaces == places.is_list /\ places.items # <<>> /\ ~MissingCoords(places.items)

IsReport == pc = "done" /\ result.keys = {"total_places", "grid_size", "hotspots"}

IsError == pc = "done" /\ result.keys = {"error"}

Binned == pc \in {"scan", "label", "done"}

RECURSIVE SumCounts(_)
SumCounts(counts) ==
    IF counts = <<>> THEN 0 ELSE counts[1].count + SumCounts(Tail(counts))

\* the cell the scan assigns to the j-th place
CellOf(j) == KeyOf(places.items[j], min_lat, min_lng, lat_step, lng_step, grid_size)

\* the cells of all places, in input order
Cells == [j \in 1..Len(places.items) |-> CellOf(j)]

\* the position in the input list of the first place of a cell
FirstSeen(cells, key) == SetMin({j \in 1..Len(cells) : cells[j] = key})

Occupied(cells) == {cells[j] : j \in 1..Len(cells)}

CountOf(cells, key) == Cardinality({j \in 1..Len(cells) : cells[j] = key})

Degenerate ==
    /\ ValidPlaces
    /\ \A j \in 1..Len(places.items) : /\ places.items[j].lat = places.items[1].lat
                                       /\ places.items[j].lng = places.items[1].lng

\* C1: for a non-empty list of points and a grid size >= 1 the call returns a
\* report whose total_places is the number of input points; the counts of all
\* occupied cells add up to it, each scanned point adding one to exactly one
\* cell, and each cell's count is the number of points assigned to it.
C1_CountsConserved ==
    (ValidPlaces /\ IsPositiveInt(grid_size)) =>
        /\ pc = "scan" => SumCounts(grid_counts) = i - 1
        /\ \A a, b \in 1..Len(grid_counts) :
              grid_counts[a].key = grid_counts[b].key => a = b
        /\ pc = "done" =>
              /\ IsReport
              /\ result.total_places = Len(places.items)
              /\ SumCounts(grid_counts) = result.total_places
              /\ LET cells == Cells
                 IN  \A a \in 1..Len(grid_counts) :
                        grid_counts[a].count = CountOf(cells, grid_counts[a].key)

C1_Witness ==
    /\ IsReport /\ IsPositiveInt(grid_size)
    /\ Len(grid_counts) > TopN
    /\ result.total_places = MaxPlaces

\* C2: for a non-empty list of points and a grid size >= 1 every assigned cell
\* has row and column in 0..gridSize-1; the point lies in the closed extent of
\* its cell, a point at the maximum of a non-degenerate axis being clamped to
\* the last row or column.
C2_CellsInGrid ==
    (ValidPlaces /\ IsPositiveInt(grid_size) /\ Binned) =>
        \A j \in 1..(i - 1) :
            LET cell == ParseKey(CellOf(j))
                g == grid_size.twice \div 2
                row == cell.bins[1]
                col == cell.bins[2]
                p == places.items[j]
            IN  /\ cell.ok
                /\ row \in 0..(g - 1) /\ col \in 0..(g - 1)
                /\ \E a \in 1..Len(grid_counts) : grid_counts[a].key = CellOf(j)
                /\ IF max_lat # min_lat
                   THEN /\ row * (max_lat - min_lat) <= (p.lat - min_lat) * g
                        /\ (p.lat - min_lat) * g <= (row + 1) * (max_lat - min_lat)
                        /\ p.lat = max_lat => row = g - 1
                   ELSE row = 0
                /\ IF max_lng # min_lng
                   THEN /\ col * (max_lng - min_lng) <= (p.lng - min_lng) * g
                        /\ (p.lng - min_lng) * g <= (col + 1) * (max_lng - min_lng)
                        /\ p.lng = max_lng => col = g - 1
                   ELSE col = 0

C2_Witness ==
    /\ IsReport /\ IsPositiveInt(grid_size)
    /\ max_lat # min_lat /\ max_lng # min_lng
    /\ grid_size = PyInt(DefaultGridSize)
    /\ \E j \in 1..Len(places.items) :
          /\ places.items[j].lat = max_lat
          /\ ParseKey(CellOf(j)).bins[1] = DefaultGridSize - 1
    /\ \E j \in 1..Len(places.items) :
          /\ places.items[j].lat \notin {min_lat, max_lat}
          /\ ParseKey(CellOf(j)).bins[1] = 2

\* C3: the hotspots of a report are ordered by count, non-increasing; of two
\* cells with equal counts the one whose first point comes earlier in the
\* input list is ahead; a cell left out counts no more than the last reported
\* one and, on a tie with a reported cell, was created later.  Order and
\* membership are thereby fixed by the input list.
C3_HotspotOrder ==
    IsReport =>
        LET h == result.hotspots
            cells == Cells
            reported == {h[a].grid_cell : a \in 1..Len(h)}
        IN  /\ \A a, b \in 1..Len(h) : a < b =>
                  /\ h[a].count >= h[b].count
                  /\ h[a].count = h[b].count =>
                        FirstSeen(cells, h[a].grid_cell) < FirstSeen(cells, h[b].grid_cell)
            /\ \A c \in Occupied(cells) \ reported : \A a \in 1..Len(h) :
                  /\ CountOf(cells, c) <= h[a].count
                  /\ CountOf(cells, c) = h[a].count =>
                        FirstSeen(cells, h[a].grid_cell) < FirstSeen(cells, c)
            /\ \A a \in 1..Len(h) : h[a].count = CountOf(cells, h[a].grid_cell)

C3_Witness ==
    /\ IsReport
    /\ Len(result.hotspots) = TopN
    /\ Len(grid_counts) > TopN
    /\ result.hotspots[2].count = result.hotspots[3].count
    /\ FirstSeen(Cells, result.hotspots[2].grid_cell)
          < FirstSeen(Cells, result.hotspots[3].grid_cell)

\* C4: a grid size that is not a positive integer (zero, negative, fractional)
\* makes the call return an error, never a report.
C4_InvalidGridRejected ==
    (pc = "done" /\ ~IsPositiveInt(grid_size)) => IsError

\* C5: when places is an empty list or no list the call returns the error
\* result and no report: no cell is counted and reverse_geocode is never called.
C5_EmptyInputError ==
    (~places.is_list \/ places.items = <<>>) =>
        /\ pc \in {"call", "done"}
        /\ grid_counts = <<>> /\ hotspot_details = <<>> /\ geocode_log = <<>>
        /\ pc = "done" => result = ErrorResult(NoPlacesMessage)

C5_Witness ==
    /\ pc = "done" /\ places.is_list /\ places.items = <<>>
    /\ result.keys = {"error"}

\* C6: when all points share one latitude and one longitude, for a grid size
\* >= 1 no exception is raised, both steps are the fallback 0.01, every point
\* is assigned to cell (0,0) and the report has one hotspot counting all points.
C6_DegenerateInput ==
    (Degenerate /\ IsPositiveInt(grid_size)) =>
        /\ exc = "none" /\ pc # "except"
        /\ Binned => /\ lat_step = [num |-> FallbackStep, den |-> 1]
                     /\ lng_step = [num |-> FallbackStep, den |-> 1]
                     /\ \A a \in 1..Len(grid_counts) :
                           grid_counts[a].key = <<"0", ",", "0">>
        /\ pc = "done" =>
              /\ IsReport
              /\ Len(result.hotspots) = 1
              /\ result.hotspots[1].grid_cell = <<"0", ",", "0">>
              /\ result.hotspots[1].count = result.total_places
              /\ result.total_places = Len(places.items)

C6_Witness ==
    /\ IsReport /\ Degenerate /\ IsPositiveInt(grid_size)
    /\ Len(places.items) > 1
    /\ result.hotspots[1].count = Len(places.items)

\* C7: a report has min(3, number of distinct occupied cells) hotspots, each
\* an occupied cell and no cell twice; so with fewer than 3 occupied cells
\* there is one entry per occupied cell and no padding.
C7_HotspotCount ==
    IsReport =>
        LET h == result.hotspots
            occupied == Occupied(Cells)
        IN  /\ Len(h) = Min2(TopN, Cardinality(occupied))
            /\ \A a \in 1..Len(h) : h[a].grid_cell \in occupied
            /\ \A a, b \in 1..Len(h) : h[a].grid_cell = h[b].grid_cell => a = b

C7_Witness ==
    /\ IsReport
    /\ Cardinality(Occupied(Cells)) = 2
    /\ Len(result.hotspots) = 2

\* C8: a failed lookup (exception, status not OK, no results) never aborts the
\* analysis: that hotspot is labelled "Unknown location", and total_places,
\* grid_size and each hotspot's cell, count and centroid are what the ranking
\* and the grid fix, whatever the lookups returned.
C8_LabelFailureAbsorbed ==
    geocode_log # <<>> =>
        /\ exc = "none" /\ pc \in {"label", "done"}
        /\ Len(hotspot_details) = Len(geocode_log)
        /\ \A j \in 1..Len(geocode_log) :
              LET d == hotspot_details[j]
                  cell == ParseKey(hotspots[j].key)
              IN  /\ geocode_log[j].failed => d.approximate_location = UnknownLocation
                  /\ d.grid_cell = hotspots[j].key
                  /\ d.count = hotspots[j].count
                  /\ d.center_lat = Center(min_lat, cell.bins[1], lat_step)
                  /\ d.center_lng = Center(min_lng, cell.bins[2], lng_step)
        /\ pc = "done" =>
              /\ IsReport
              /\ result.total_places = Len(places.items)
              /\ result.grid_size = grid_size
              /\ result.hotspots = hotspot_details
              /\ Len(result.hotspots) = Len(Top(hotspots))

C8_Witness ==
    /\ IsReport
    /\ \E a, b \in 1..Len(geocode_log) :
          /\ geocode_log[a].failed
          /\ result.hotspots[a].approximate_location = UnknownLocation
          /\ ~geocode_log[b].failed
          /\ result.hotspots[b].approximate_location # UnknownLocation

\* C9: a call ends with a complete report or with a single error value: no
\* exception leaves analyze_density, nothing is returned before the end, and a
\* returned report has total_places, grid_size and one complete entry for each
\* of the top cells.
C9_ReportOrError ==
    /\ raised = "none"
    /\ pc # "done" => result = NoResult
    /\ pc = "done" =>
          \/ /\ result.keys = {"error"}
             /\ result.error # ""
             /\ result.hotspots = <<>>
          \/ /\ IsReport
             /\ result.total_places = Len(places.items)
             /\ result.grid_size = grid_size
             /\ Len(result.hotspots) = Min2(TopN, Len(grid_counts))
             /\ \A a \in 1..Len(result.hotspots) :
                   /\ result.hotspots[a].grid_cell # <<>>
                   /\ result.hotspots[a].count >= 1
                   /\ result.hotspots[a].center_lat.den >= 1
                   /\ result.hotspots[a].center_lng.den >= 1
                   /\ result.hotspots[a].approximate_location # ""

C9_Witness ==
    /\ pc = "done"
    /\ exc = "ValueError"
    /\ result = ErrorResult("ValueError")

\* C10: reverse_geocode is called at most 3 times in a call, once per reported
\* hotspot and in rank order, only after every point is binned and the cells
\* are ranked; never for a cell outside the reported hotspots.
C10_LabelerCalls ==
    /\ Len(geocode_log) <= TopN
    /\ pc \in {"call", "bbox", "scan"} => geocode_log = <<>>
    /\ geocode_log # <<>> =>
          /\ i = Len(places.items) + 1
          /\ SumCounts(grid_counts) = Len(places.items)
          /\ Len(hotspots) = Len(grid_counts)
          /\ Len(geocode_log) = k - 1
          /\ \A j \in 1..Len(geocode_log) :
                LET cell == ParseKey(hotspots[j].key)
                IN  /\ geocode_log[j].lat = Center(min_lat, cell.bins[1], lat_step)
                    /\ geocode_log[j].lng = Center(min_lng, cell.bins[2], lng_step)
    /\ IsReport =>
          /\ Len(geocode_log) = Len(result.hotspots)
          /\ \A j \in 1..Len(geocode_log) :
                /\ geocode_log[j].lat = result.hotspots[j].center_lat
                /\ geocode_log[j].lng = result.hotspots[j].center_lng

C10_Witness ==
    /\ IsReport
    /\ Len(geocode_log) = TopN
    /\ Len(grid_counts) > TopN

====
